---- MODULE Spec2Model ----
(***************************************************************************)
(* Model of travelbest.py: a Streamlit script that collects a traveler     *)
(* profile, asks a chat-completion service for one destination, parses    *)
(* the reply with json.loads and renders it (text, map marker, JSON file). *)
(*                                                                         *)
(* Python values are records [k, n, s, items, keys] (k is the type tag),   *)
(* JSON texts are sequences of lexical tokens [t, s, n].                   *)
(***************************************************************************)
EXTENDS Integers, Sequences, FiniteSets, TLC

(***************************************************************************)
(* Python values                                                           *)
(***************************************************************************)
PyVal(kind, num, str, its, ks) ==
    [k |-> kind, n |-> num, s |-> str, items |-> its, keys |-> ks]

PyNone == PyVal("none", 0, "", <<>>, <<>>)
\* the name `rec` before line 181 has assigned it (or when line 77 stopped the run)
Unassigned == PyVal("unassigned", 0, "", <<>>, <<>>)
PyBool(b) == PyVal("bool", IF b THEN 1 ELSE 0, "", <<>>, <<>>)
PyNum(i) == PyVal("num", i, "", <<>>, <<>>)
PyNaN == PyVal("nan", 0, "", <<>>, <<>>)      \* float('nan')
PyStr(x) == PyVal("str", 0, x, <<>>, <<>>)
PyList(xs) == PyVal("list", 0, "", xs, <<>>)
PyDict(ks, vs) == PyVal("dict", 0, "", vs, ks)

\* bool(v), as `if rec:` evaluates it (line 183)
PyTruthy(v) ==
    CASE v.k = "none" -> FALSE
      [] v.k = "bool" -> v.n = 1
      [] v.k = "num"  -> v.n # 0
      [] v.k = "nan"  -> TRUE
      [] v.k = "str"  -> v.s # ""
      [] v.k = "list" -> v.items # <<>>
      [] v.k = "dict" -> v.keys # <<>>
      [] OTHER        -> FALSE

KeyIndex(ks, key) ==
    IF \E i \in 1..Len(ks) : ks[i] = key
    THEN CHOOSE i \in 1..Len(ks) : ks[i] = key
    ELSE 0

\* d[key] = v on a dict: a new key is appended, an existing key keeps its place
DictSet(d, key, v) ==
    LET i == KeyIndex(d.keys, key) IN
    IF i = 0
    THEN PyDict(Append(d.keys, key), Append(d.items, v))
    ELSE PyDict(d.keys, [d.items EXCEPT ![i] = v])

\* rec['name'] with a string key: the exception it raises ("" for none) and the value
Subscript(v, key) ==
    CASE v.k = "dict" ->
            LET i == KeyIndex(v.keys, key) IN
            IF i = 0 THEN [exc |-> "KeyError", val |-> PyNone]
            ELSE [exc |-> "", val |-> v.items[i]]
      [] OTHER -> [exc |-> "TypeError", val |-> PyNone]

(***************************************************************************)
(* JSON text as tokens, json.loads and json.dump(indent=4)                 *)
(***************************************************************************)
Tok(kind, str, num) == [t |-> kind, s |-> str, n |-> num]
P(x) == Tok("p", x, 0)          \* punctuation { } [ ] , :
S(x) == Tok("s", x, 0)          \* string literal
N(i) == Tok("n", "", i)         \* number literal
W(x) == Tok("w", x, 0)          \* true, false, null, NaN
Ws(i) == Tok("ws", "", i)       \* newline followed by i spaces
X(x) == Tok("x", x, 0)          \* text that is no JSON token

IndentWidth == 4

Fail == [ok |-> FALSE, val |-> PyNone, next |-> 0]
Ok(v, nxt) == [ok |-> TRUE, val |-> v, next |-> nxt]

IsP(toks, i, x) == i <= Len(toks) /\ toks[i].t = "p" /\ toks[i].s = x

RECURSIVE SkipWs(_, _)
SkipWs(toks, i) ==
    IF i <= Len(toks) /\ toks[i].t = "ws" THEN SkipWs(toks, i + 1) ELSE i

RECURSIVE ParseValue(_, _)
RECURSIVE ParseItems(_, _, _)
RECURSIVE ParseMembers(_, _, _)

ParseValue(toks, i) ==
    IF i > Len(toks) THEN Fail
    ELSE LET tok == toks[i] IN
      CASE tok.t = "s" -> Ok(PyStr(tok.s), i + 1)
        [] tok.t = "n" -> Ok(PyNum(tok.n), i + 1)
        [] tok.t = "w" /\ tok.s = "null"  -> Ok(PyNone, i + 1)
        [] tok.t = "w" /\ tok.s = "true"  -> Ok(PyBool(TRUE), i + 1)
        [] tok.t = "w" /\ tok.s = "false" -> Ok(PyBool(FALSE), i + 1)
        [] tok.t = "w" /\ tok.s = "NaN"   -> Ok(PyNaN, i + 1)
        [] tok.t = "p" /\ tok.s = "[" ->
              LET j == SkipWs(toks, i + 1) IN
              IF IsP(toks, j, "]") THEN Ok(PyList(<<>>), j + 1)
              ELSE ParseItems(toks, j, <<>>)
        [] tok.t = "p" /\ tok.s = "{" ->
              LET j == SkipWs(toks, i + 1) IN
              IF IsP(toks, j, "}") THEN Ok(PyDict(<<>>, <<>>), j + 1)
              ELSE ParseMembers(toks, j, PyDict(<<>>, <<>>))
        [] OTHER -> Fail

ParseItems(toks, i, acc) ==
    LET r == ParseValue(toks, i) IN
    IF ~r.ok THEN Fail
    ELSE LET j == SkipWs(toks, r.next)
             xs == Append(acc, r.val) IN
         IF IsP(toks, j, ",") THEN ParseItems(toks, SkipWs(toks, j + 1), xs)
         ELSE IF IsP(toks, j, "]") THEN Ok(PyList(xs), j + 1)
         ELSE Fail

ParseMembers(toks, i, d) ==
    IF ~(i <= Len(toks) /\ toks[i].t = "s") THEN Fail
    ELSE LET c == SkipWs(toks, i + 1) IN
      IF ~IsP(toks, c, ":") THEN Fail
      ELSE LET r == ParseValue(toks, SkipWs(toks, c + 1)) IN
        IF ~r.ok THEN Fail
        ELSE LET j == SkipWs(toks, r.next)
                 d2 == DictSet(d, toks[i].s, r.val) IN
             IF IsP(toks, j, ",") THEN ParseMembers(toks, SkipWs(toks, j + 1), d2)
             ELSE IF IsP(toks, j, "}") THEN Ok(d2, j + 1)
             ELSE Fail

\* json.loads(text): the exception it raises ("" for none) and the value
json_loads(toks) ==
    LET r == ParseValue(toks, SkipWs(toks, 1)) IN
    IF r.ok /\ SkipWs(toks, r.next) = Len(toks) + 1
    THEN [exc |-> "", val |-> r.val]
    ELSE [exc |-> "JSONDecodeError", val |-> PyNone]

RECURSIVE DumpValue(_, _)
RECURSIVE DumpItems(_, _, _)
RECURSIVE DumpMembers(_, _, _)

DumpValue(v, level) ==
    CASE v.k = "none" -> <<W("null")>>
      [] v.k = "bool" -> <<W(IF v.n = 1 THEN "true" ELSE "false")>>
      [] v.k = "num"  -> <<N(v.n)>>
      [] v.k = "nan"  -> <<W("NaN")>>
      [] v.k = "str"  -> <<S(v.s)>>
      [] v.k = "list" ->
            IF v.items = <<>> THEN <<P("["), P("]")>>
            ELSE <<P("[")>> \o DumpItems(v.items, 1, level + 1)
                 \o <<Ws(IndentWidth * level), P("]")>>
      [] v.k = "dict" ->
            IF v.keys = <<>> THEN <<P("{"), P("}")>>
            ELSE <<P("{")>> \o DumpMembers(v, 1, level + 1)
                 \o <<Ws(IndentWidth * level), P("}")>>

DumpItems(xs, i, level) ==
    <<Ws(IndentWidth * level)>> \o DumpValue(xs[i], level)
    \o (IF i < Len(xs) THEN <<P(",")>> \o DumpItems(xs, i + 1, level) ELSE <<>>)

DumpMembers(d, i, level) ==
    <<Ws(IndentWidth * level), S(d.keys[i]), P(":")>> \o DumpValue(d.items[i], level)
    \o (IF i < Len(d.keys) THEN <<P(",")>> \o DumpMembers(d, i + 1, level) ELSE <<>>)

\* the file read back before its last write reached it
json_dump_truncated(v) == SubSeq(DumpValue(v, 0), 1, Len(DumpValue(v, 0)) - 1)

\* json.dump(rec, tmp, indent=4): the text written to the file
json_dump(v) == DumpValue(v, 0)

\* a == b on Python values: nan equals nothing, True == 1, a dict ignores key order
RECURSIVE PyEq(_, _)
PyEq(a, b) ==
    CASE a.k = "nan" \/ b.k = "nan" -> FALSE
      [] a.k \in {"num", "bool"} /\ b.k \in {"num", "bool"} -> a.n = b.n
      [] a.k # b.k -> FALSE
      [] a.k = "str" -> a.s = b.s
      [] a.k = "list" ->
            /\ Len(a.items) = Len(b.items)
            /\ \A i \in 1..Len(a.items) : PyEq(a.items[i], b.items[i])
      [] a.k = "dict" ->
            /\ Len(a.keys) = Len(b.keys)
            /\ \A i \in 1..Len(a.keys) :
                  /\ KeyIndex(b.keys, a.keys[i]) # 0
                  /\ PyEq(a.items[i], b.items[KeyIndex(b.keys, a.keys[i])])
      [] OTHER -> TRUE

(***************************************************************************)
(* Replies of the chat-completion service (response.choices[0].message     *)
(* .content), written as the service writes them: compact JSON text        *)
(***************************************************************************)
RECURSIVE Join(_)
Join(texts) ==
    IF texts = <<>> THEN <<>>
    ELSE IF Len(texts) = 1 THEN texts[1]
    ELSE texts[1] \o <<P(",")>> \o Join(Tail(texts))

ListText(texts) == <<P("[")>> \o Join(texts) \o <<P("]")>>
Member(key, text) == <<S(key), P(":")>> \o text
ObjText(members) == <<P("{")>> \o Join(members) \o <<P("}")>>

Paris == Member("destination", <<S("Paris, France")>>)
Score == Member("match_score", <<S("9/10")>>)
Why3 == Member("why_perfect",
    ListText(<< <<S("Rich in history")>>, <<S("Romantic atmosphere")>>, <<S("Great food")>> >>))
Why4 == Member("why_perfect",
    ListText(<< <<S("Rich in history")>>, <<S("Romantic atmosphere")>>,
                <<S("Great food")>>, <<S("Walkable")>> >>))
WhyMistyped == Member("why_perfect", ListText(<< <<S("Rich in history")>>, <<N(2)>> >>))
Coords(lat, lng) == Member("coordinates", ListText(<< <<N(lat)>>, <<N(lng)>> >>))
Itinerary == Member("itinerary_highlights",
    ListText(<< <<S("Day 1: Eiffel Tower")>>, <<S("Day 2: Louvre")>> >>))
Secret == Member("local_secret", <<S("Hidden garden")>>)
Warning == Member("warning", <<S("Pickpockets common")>>)

ReplyParis == ObjText(<<Paris, Score, Why3, Coords(48, 2), Itinerary, Secret, Warning>>)
ReplyNoCoordinates == ObjText(<<Paris, Score, Why3, Itinerary, Secret, Warning>>)
ReplyOutOfRange == ObjText(<<Paris, Score, Why3, Coords(91, 200), Itinerary, Secret, Warning>>)
ReplyFourReasons == ObjText(<<Paris, Score, Why4, Coords(48, 2), Itinerary, Secret, Warning>>)
ReplyMistyped == ObjText(<<Paris, Score, WhyMistyped, Coords(48, 2), Itinerary, Secret, Warning>>)
ReplyNoWarning == ObjText(<<Paris, Score, Why3, Coords(48, 2), Itinerary, Secret>>)
ReplyNaNScore ==
    ObjText(<<Paris, Member("match_score", <<W("NaN")>>), Why3, Coords(48, 2), Itinerary,
              Secret, Warning>>)
ReplyNotJson == <<X("not"), Ws(0), X("json")>>
ReplyTruncated == <<P("{"), S("destination"), P(":"), S("Paris, France"), P(",")>>
ReplyEmptyObject == <<P("{"), P("}")>>
ReplyEmptyList == <<P("["), P("]")>>
ReplyNull == <<W("null")>>
ReplyZero == <<N(0)>>
ReplyEmptyString == <<S("")>>
ReplyBareString == <<S("Paris, France")>>

Replies ==
    { ReplyParis, ReplyNoCoordinates, ReplyOutOfRange, ReplyFourReasons, ReplyMistyped,
      ReplyNoWarning, ReplyNaNScore, ReplyNotJson, ReplyTruncated, ReplyEmptyObject, ReplyEmptyList,
      ReplyNull, ReplyZero, ReplyEmptyString, ReplyBareString }

\* what client.chat.completions.create does: it raises, or it returns a completion
NoOutcome == [exc |-> "none", content |-> <<>>]
Outcomes ==
    { [exc |-> e, content |-> <<>>] : e \in {"APIConnectionError", "AuthenticationError"} }
    \cup { [exc |-> "", content |-> c] : c \in Replies }

(***************************************************************************)
(* get_perfect_destination and the presentation steps of main              *)
(***************************************************************************)
\* the keyword arguments of client.chat.completions.create (temperature in tenths)
Request(ui) ==
    [ model |-> "llama3-70b-8192",
      system |-> "You are an elite travel curator. Be extremely selective.",
      prompt |-> ui,
      temperature |-> 5 ]

\* the try block: the exception raised inside it ("" for none) and the value computed
TryBody(o) ==
    IF o.exc # "" THEN [exc |-> o.exc, val |-> PyNone]
    ELSE json_loads(o.content)

\* an except clause that names the service's exceptions only
CatchesApiOnly(e) == e \in {"APIConnectionError", "AuthenticationError"}

\* `except Exception as e`: every exception of the try block is caught
Catches(e) == TRUE

\* the call of line 181: caught is the exception bound to e at line 75, raised the
\* exception that leaves the function, rec the returned value
get_perfect_destination(o) ==
    LET r == TryBody(o) IN
    IF r.exc = "" THEN [caught |-> "", raised |-> "", rec |-> r.val]
    ELSE IF Catches(r.exc) THEN [caught |-> r.exc, raised |-> "", rec |-> Unassigned]
    ELSE [caught |-> "", raised |-> r.exc, rec |-> Unassigned]

\* folium's check of a location: a sized value of two entries convertible to float.
\* No range is checked.  (The strings of this model are no numerals.)
ValidateLocation(v) ==
    IF v.k \notin {"list", "str", "dict"} THEN "TypeError"
    ELSE IF v.k # "list" \/ Len(v.items) # 2 THEN "ValueError"
    ELSE IF \E i \in 1..2 : v.items[i].k \notin {"num", "bool"} THEN "ValueError"
    ELSE ""

\* `for x in v`: the exception ("" for none) and the values iterated over
\* (a string iterates over its characters, kept here as one piece)
PyIter(v) ==
    CASE v.k = "list" -> [exc |-> "", items |-> v.items]
      [] v.k = "dict" -> [exc |-> "", items |-> [i \in 1..Len(v.keys) |-> PyStr(v.keys[i])]]
      [] v.k = "str"  -> [exc |-> "", items |-> IF v.s = "" THEN <<>> ELSE <<v>>]
      [] OTHER        -> [exc |-> "TypeError", items |-> <<>>]

Shown(parts, e) == [parts |-> parts, exc |-> e, marker |-> Unassigned, file |-> <<>>]

Repeat(x, n) == [i \in 1..n |-> x]

\* the position of the first entry of xs that is no str, or 0
FirstNonStr(xs) ==
    IF \E i \in 1..Len(xs) : xs[i].k # "str"
    THEN CHOOSE i \in 1..Len(xs) : xs[i].k # "str" /\ \A j \in 1..(i - 1) : xs[j].k = "str"
    ELSE 0

RenderSteps ==
    << "destination", "score", "map", "reasons", "itinerary", "secret", "warning", "download" >>

\* one statement group of lines 185-212: the elements it puts on the page, the
\* exception that ends it, the location given to folium.Marker, the file written
RenderStep(step, r) ==
    CASE step = "destination" ->                                   \* line 185
            Shown(IF Subscript(r, "destination").exc = "" THEN <<"destination">> ELSE <<>>,
                  Subscript(r, "destination").exc)
      [] step = "score" ->                                         \* line 186
            Shown(IF Subscript(r, "match_score").exc = "" THEN <<"score">> ELSE <<>>,
                  Subscript(r, "match_score").exc)
      [] step = "map" ->                                           \* lines 188-194
            LET c == Subscript(r, "coordinates") IN
            IF c.exc # "" THEN Shown(<<>>, c.exc)
            ELSE IF ValidateLocation(c.val) # "" THEN Shown(<<>>, ValidateLocation(c.val))
            ELSE [parts |-> <<"map">>, exc |-> "", marker |-> c.val, file |-> <<>>]
      [] step = "reasons" ->                                       \* lines 196-198
            LET w == Subscript(r, "why_perfect") IN
            IF w.exc # "" THEN Shown(<<"reasons_header">>, w.exc)
            ELSE IF PyIter(w.val).exc # "" THEN Shown(<<"reasons_header">>, PyIter(w.val).exc)
            ELSE LET xs == PyIter(w.val).items
                     bad == FirstNonStr(xs) IN
                 IF bad = 0 THEN Shown(<<"reasons_header">> \o Repeat("reason", Len(xs)), "")
                 ELSE Shown(<<"reasons_header">> \o Repeat("reason", bad - 1), "AttributeError")
      [] step = "itinerary" ->                                     \* lines 200-202
            LET w == Subscript(r, "itinerary_highlights") IN
            IF w.exc # "" THEN Shown(<<"itinerary_header">>, w.exc)
            ELSE IF PyIter(w.val).exc # "" THEN Shown(<<"itinerary_header">>, PyIter(w.val).exc)
            ELSE Shown(<<"itinerary_header">> \o Repeat("day", Len(PyIter(w.val).items)), "")
      [] step = "secret" ->                                        \* lines 204-205
            Shown(<<"secret_expander">>
                    \o (IF Subscript(r, "local_secret").exc = "" THEN <<"secret">> ELSE <<>>),
                  Subscript(r, "local_secret").exc)
      [] step = "warning" ->                                       \* lines 207-208
            Shown(<<"warning_header">>
                    \o (IF Subscript(r, "warning").exc = "" THEN <<"warning">> ELSE <<>>),
                  Subscript(r, "warning").exc)
      [] step = "download" ->                                      \* lines 210-212
            [parts |-> <<"download">>, exc |-> "", marker |-> Unassigned, file |-> json_dump(r)]

RECURSIVE RenderFrom(_, _, _)
RenderFrom(i, r, acc) ==
    IF i > Len(RenderSteps) \/ acc.exc # "" THEN acc
    ELSE LET d == RenderStep(RenderSteps[i], r) IN
         RenderFrom(i + 1, r,
            [ parts  |-> acc.parts \o d.parts,
              exc    |-> d.exc,
              marker |-> IF d.marker # Unassigned THEN d.marker ELSE acc.marker,
              file   |-> IF d.file # <<>> THEN d.file ELSE acc.file ])

\* lines 183-212: nothing is rendered for a falsy rec
Render(r) ==
    IF ~PyTruthy(r) THEN Shown(<<>>, "")
    ELSE RenderFrom(1, r, Shown(<<>>, ""))

(***************************************************************************)
(* One browser session of the script.  Streamlit runs the script top to    *)
(* bottom for the page load and again for every widget interaction; an     *)
(* interaction that arrives while a run is busy is kept as one pending     *)
(* rerun request, and the busy run is abandoned at its next st.* call.     *)
(***************************************************************************)
VARIABLES
    credential,   \* st.secrets holds GROQ_API_KEY
    duration,     \* the slider's value in the browser
    rerun,        \* the pending rerun request and the button value it carries
    phase,        \* where the current run is, or how the last one ended
    user_inputs,  \* the dict of line 177 in the current run
    inflight,     \* requests sent to the service and not yet answered
    calls,        \* number of client.chat.completions.create calls made
    clicks,       \* number of times the user pressed the button
    outcome,      \* what the service did for the request of the current run
    caught,       \* the exception bound to e at line 75 ("" for none)
    rec,          \* the value of rec in main
    screen,       \* the elements the current run has put on the page
    raised,       \* the uncaught exception that ended the run ("" for none)
    marker,       \* the location given to folium.Marker
    saved         \* the text written by save_recommendation_to_file

vars == << credential, duration, rerun, phase, user_inputs, inflight, calls, clicks,
           outcome, caught, rec, screen, raised, marker, saved >>

MaxClicks == 3
DefaultDuration == 7
Durations == {DefaultDuration, 2 * DefaultDuration}

Has(xs, x) == \E i \in 1..Len(xs) : xs[i] = x
Count(xs, x) == Cardinality({i \in 1..Len(xs) : xs[i] = x})

NoRerun == [pending |-> FALSE, clicked |-> FALSE]

\* a lookup that yields None for an absent key instead of raising
LoadApiKeyOptional(cred) == ""

\* line 17: st.secrets["GROQ_API_KEY"] raises when the key is absent
LoadApiKey(cred) == IF cred THEN "" ELSE "KeyError"

\* a call handed to a background thread: the run goes on without the answer
PhaseAfterSubmitAsync == "Collecting"

\* lines 180-181: the call is made inside the run, which waits for the answer
PhaseAfterSubmit == "Requesting"

\* the call made outside the button's branch, on every run
ButtonIgnored(r) == TRUE

\* line 179: st.button is True only in the run its press started
ButtonPressed(r) == r.clicked

Init ==
    /\ credential \in BOOLEAN
    /\ duration = DefaultDuration
    /\ rerun = [pending |-> TRUE, clicked |-> FALSE]
    /\ phase = "Start"
    /\ user_inputs = [duration |-> DefaultDuration]
    /\ inflight = <<>>
    /\ calls = 0
    /\ clicks = 0
    /\ outcome = NoOutcome
    /\ caught = ""
    /\ rec = Unassigned
    /\ screen = <<>>
    /\ raised = ""
    /\ marker = Unassigned
    /\ saved = <<>>

\* every run starts with an empty page and fresh names
FreshRun ==
    /\ rerun' = NoRerun
    /\ outcome' = NoOutcome
    /\ caught' = ""
    /\ rec' = Unassigned
    /\ marker' = Unassigned
    /\ saved' = <<>>

\* the user presses "Find My Perfect Destination" (line 179)
UserClick ==
    /\ Has(screen, "button")
    /\ clicks < MaxClicks
    /\ clicks' = clicks + 1
    /\ rerun' = [pending |-> TRUE, clicked |-> TRUE]
    /\ UNCHANGED << credential, duration, phase, user_inputs, inflight, calls, outcome,
                    caught, rec, screen, raised, marker, saved >>

\* the user moves the duration slider (line 93): a rerun without a button press,
\* merged into a pending request
UserEdit(d) ==
    /\ Has(screen, "form")
    /\ d # duration
    /\ duration' = d
    /\ rerun' = [pending |-> TRUE, clicked |-> rerun.clicked]
    /\ UNCHANGED << credential, phase, user_inputs, inflight, calls, clicks, outcome,
                    caught, rec, screen, raised, marker, saved >>

\* lines 10-18 of a run without the credential: line 17 raises, nothing else runs
RunConfigMissing ==
    /\ phase # "Requesting"
    /\ rerun.pending
    /\ LoadApiKey(credential) # ""
    /\ FreshRun
    /\ raised' = LoadApiKey(credential)
    /\ screen' = <<"exception">>
    /\ phase' = "ConfigMissing"
    /\ UNCHANGED << credential, duration, user_inputs, inflight, calls, clicks >>

\* a run whose button is False: lines 10-179 and 214-220
RunCollect ==
    /\ phase # "Requesting"
    /\ rerun.pending
    /\ LoadApiKey(credential) = ""
    /\ ~ButtonPressed(rerun)
    /\ FreshRun
    /\ user_inputs' = [duration |-> duration]
    /\ raised' = ""
    /\ screen' = <<"form", "button", "footer">>
    /\ phase' = "Collecting"
    /\ UNCHANGED << credential, duration, inflight, calls, clicks >>

\* a run whose button is True: lines 10-181 up to the call of the service
RunSubmit ==
    /\ phase # "Requesting"
    /\ rerun.pending
    /\ LoadApiKey(credential) = ""
    /\ ButtonPressed(rerun)
    /\ FreshRun
    /\ user_inputs' = [duration |-> duration]
    /\ raised' = ""
    /\ screen' = <<"form", "button", "spinner">>
    /\ inflight' = Append(inflight, Request([duration |-> duration]))
    /\ calls' = calls + 1
    /\ phase' = PhaseAfterSubmit
    /\ UNCHANGED << credential, duration, clicks >>

\* the service answers and a rerun is pending: the run is abandoned at its next
\* st.* call (st.error, or leaving the spinner), so nothing of the answer is shown
RespondSuperseded(o) ==
    /\ phase = "Requesting"
    /\ inflight # <<>>
    /\ rerun.pending
    /\ inflight' = Tail(inflight)
    /\ outcome' = o
    /\ phase' = "Superseded"
    /\ UNCHANGED << credential, duration, rerun, user_inputs, calls, clicks, caught, rec,
                    screen, raised, marker, saved >>

\* the service answers: lines 74-77 and 183-220
Respond(o) ==
    /\ phase = "Requesting"
    /\ inflight # <<>>
    /\ ~rerun.pending
    /\ inflight' = Tail(inflight)
    /\ outcome' = o
    /\ LET g == get_perfect_destination(o)
           v == Render(g.rec)
       IN  /\ caught' = g.caught
           /\ rec' = g.rec
           /\ IF g.raised # ""
              THEN /\ raised' = g.raised
                   /\ screen' = <<"form", "button", "exception">>
                   /\ phase' = "Crashed"
                   /\ UNCHANGED << marker, saved >>
              ELSE IF g.caught # ""
              THEN /\ raised' = ""                                  \* lines 76-77
                   /\ screen' = <<"form", "button", "error">>
                   /\ phase' = "Failed"
                   /\ UNCHANGED << marker, saved >>
              ELSE /\ raised' = v.exc
                   /\ marker' = v.marker
                   /\ saved' = v.file
                   /\ screen' = <<"form", "button">> \o v.parts
                                \o (IF v.exc # "" THEN <<"exception">> ELSE <<"footer">>)
                   /\ phase' = IF v.exc # "" THEN "Crashed"
                               ELSE IF v.parts = <<>> THEN "Silent"
                               ELSE "Displaying"
    /\ UNCHANGED << credential, duration, rerun, user_inputs, calls, clicks >>

Next ==
    \/ UserClick
    \/ \E d \in Durations : UserEdit(d)
    \/ RunConfigMissing
    \/ RunCollect
    \/ RunSubmit
    \/ \E o \in Outcomes : RespondSuperseded(o)
    \/ \E o \in Outcomes : Respond(o)

Spec == Init /\ [][Next]_vars

TypeOK ==
    /\ credential \in BOOLEAN
    /\ duration \in Durations
    /\ phase \in {"Start", "ConfigMissing", "Collecting", "Requesting", "Displaying",
                  "Failed", "Crashed", "Silent", "Superseded"}
    /\ calls \in 0..MaxClicks
    /\ clicks \in 0..MaxClicks

(***************************************************************************)
(* Properties                                                              *)
(***************************************************************************)
Field(r, key) == Subscript(r, key).val
IsText(v) == v.k = "str" /\ v.s # ""
IsTextList(v) == v.k = "list" /\ \A i \in 1..Len(v.items) : v.items[i].k = "str"

\* -90 <= lat <= 90 and -180 <= lng <= 180
InRange(c) ==
    /\ c.k = "list" /\ Len(c.items) = 2
    /\ c.items[1].k = "num" /\ c.items[1].n >= -90 /\ c.items[1].n <= 90
    /\ c.items[2].k = "num" /\ c.items[2].n >= -180 /\ c.items[2].n <= 180

\* the Recommendation record: every field present and of its type
SchemaValid(r) ==
    /\ r.k = "dict"
    /\ \A key \in {"destination", "match_score", "why_perfect", "coordinates",
                   "itinerary_highlights", "local_secret", "warning"} :
          Subscript(r, key).exc = ""
    /\ IsText(Field(r, "destination"))
    /\ Field(r, "match_score").k = "str"
    /\ IsTextList(Field(r, "why_perfect")) /\ Len(Field(r, "why_perfect").items) <= 3
    /\ InRange(Field(r, "coordinates"))
    /\ IsTextList(Field(r, "itinerary_highlights"))
    /\ IsText(Field(r, "local_secret"))
    /\ IsText(Field(r, "warning"))

RECURSIVE HasNaN(_)
HasNaN(v) == v.k = "nan" \/ \E i \in 1..Len(v.items) : HasNaN(v.items[i])

\* the elements of the page that show a part of the recommendation
RecParts ==
    { "destination", "score", "map", "reasons_header", "reason", "itinerary_header", "day",
      "secret_expander", "secret", "warning_header", "warning", "download" }
RequiredParts == {"destination", "score", "map", "secret", "warning", "download"}
Rendered == {screen[i] : i \in 1..Len(screen)} \cap RecParts

\* the run has handled the service's answer (it was not abandoned for a rerun)
Answered == phase \in {"Displaying", "Failed", "Crashed", "Silent"}

\* C1: the value get_perfect_destination returns to main is a Recommendation that
\* satisfies the whole schema; any other reply ends in a failure and returns nothing.
C1_ReturnsValidOrFailure == rec # Unassigned => SchemaValid(rec)

\* C2: at every moment either every part of the recommendation is on the page or
\* none is.
C2_AllOrNothingRendered == Rendered = {} \/ RequiredParts \subseteq Rendered

\* C3: a failure inside the client call is caught there: a transport or
\* authentication failure as the service's exception, a reply that is no JSON as a
\* decode error; the run shows exactly one error notice, no part of a
\* recommendation, binds no rec and ends without an uncaught exception.
FailureKind(e) ==
    CASE e \in {"APIConnectionError", "AuthenticationError"} -> "ServiceUnavailable"
      [] e = "JSONDecodeError" -> "MalformedResponse"
      [] OTHER -> "none"

C4_MarkerInRange == marker # Unassigned => InRange(marker)

C6_RequestsCarrySequenceNumber ==
    \A i \in 1..Len(inflight) : "seq" \in DOMAIN inflight[i]

C8_NoCallWithoutCredential ==
    ~credential =>
      /\ calls = 0 /\ inflight = <<>> /\ outcome = NoOutcome
      /\ phase \in {"Start", "ConfigMissing"}
      /\ phase = "ConfigMissing" => raised = "KeyError" /\ ~Has(screen, "button")

C8_Witness == ~credential /\ phase = "ConfigMissing" /\ raised = "KeyError"

C10_AnswerShowsResultOrNotice ==
    Answered => Has(screen, "download") \/ Has(screen, "error")

====
